---- MODULE Spec2Model ----
(***************************************************************************)
(* A model of the `either` crate: the two-variant sum type Either<L, R>,   *)
(* its inspection / extraction / mapping / conversion methods, the derived *)
(* ordering, the Iterator forwarding of Either, the IterEither adaptor     *)
(* built by factor_into_iter, and the borsh codec of Either.               *)
(***************************************************************************)
EXTENDS Integers, Sequences, FiniteSets, TLC

(* ------------------------------ bounds -------------------------------- *)

\* Payloads are the integers 0..MaxVal.
MaxVal == 2

\* Sequences handed to iterators hold at most MaxLen items.
MaxLen == 3

Payload == 0 .. MaxVal

(* ------------------------- values of the crate ------------------------ *)

\* enum Either<L, R> { Left(L), Right(R) }
Left(v) == [tag |-> "Left", val |-> v]

Right(v) == [tag |-> "Right", val |-> v]

\* Option<T>
Some(v) == [some |-> TRUE, val |-> v]

None == [some |-> FALSE]

\* Result<T, E>
Ok(v) == [kind |-> "Ok", val |-> v]

Err(e) == [kind |-> "Err", val |-> e]

\* The unit value ().
Unit == "()"

\* A shared borrow &v and an exclusive borrow &mut v of a payload v.
Ref(v) == [ref |-> v]

RefMut(v) == [refmut |-> v]

\* Every Either over the payloads.
Eithers == {Left(v) : v \in Payload} \cup {Right(v) : v \in Payload}

\* Every Result over the payloads.
Results == {Ok(v) : v \in Payload} \cup {Err(v) : v \in Payload}

(* ----------------------- caller-supplied closures --------------------- *)

\* The closures of the doc examples: |x| x * 2, square and negate.
Twice == [v \in Payload |-> v * 2]

Square == [v \in Payload |-> v * v]

Negate == [v \in Payload |-> 0 - v]

Fns == {Twice, Square, Negate}

\* Calling closure fn, passed as parameter `name`, on arg: the value it
\* returns and the call appended to the log of closure calls.
CallFn(name, fn, arg, log) ==
    [ret |-> fn[arg], log |-> Append(log, [fn |-> name, arg |-> arg])]

(* --------------------------- Either methods --------------------------- *)

is_left(self) ==
    CASE self.tag = "Left" -> TRUE
      [] self.tag = "Right" -> FALSE

is_right(self) == ~is_left(self)

left(self) ==
    CASE self.tag = "Left" -> Some(self.val)
      [] self.tag = "Right" -> None

right_SwappedArms(self) ==
    CASE self.tag = "Left" -> Some(self.val)
      [] self.tag = "Right" -> None

right(self) ==
    CASE self.tag = "Left" -> None
      [] self.tag = "Right" -> Some(self.val)

as_ref(self) ==
    CASE self.tag = "Left" -> Left(Ref(self.val))
      [] self.tag = "Right" -> Right(Ref(self.val))

as_mut(self) ==
    CASE self.tag = "Left" -> Left(RefMut(self.val))
      [] self.tag = "Right" -> Right(RefMut(self.val))

flip_KeepsLeft(self) ==
    CASE self.tag = "Left" -> Left(self.val)
      [] self.tag = "Right" -> Left(self.val)

flip(self) ==
    CASE self.tag = "Left" -> Right(self.val)
      [] self.tag = "Right" -> Left(self.val)

map_left_BothArms(self, f, log) ==
    LET c == CallFn("f", f, self.val, log)
    IN  [ret |-> [tag |-> self.tag, val |-> c.ret], log |-> c.log]

map_left(self, f, log) ==
    CASE self.tag = "Left" ->
            LET c == CallFn("f", f, self.val, log)
            IN  [ret |-> Left(c.ret), log |-> c.log]
      [] self.tag = "Right" -> [ret |-> Right(self.val), log |-> log]

map_right(self, f, log) ==
    CASE self.tag = "Left" -> [ret |-> Left(self.val), log |-> log]
      [] self.tag = "Right" ->
            LET c == CallFn("f", f, self.val, log)
            IN  [ret |-> Right(c.ret), log |-> c.log]

either_AlwaysF(self, f, g, log) == CallFn("f", f, self.val, log)

either(self, f, g, log) ==
    CASE self.tag = "Left" -> CallFn("f", f, self.val, log)
      [] self.tag = "Right" -> CallFn("g", g, self.val, log)

\* impl From<Result<R, L>> for Either<L, R>
from(r) ==
    CASE r.kind = "Err" -> Left(r.val)
      [] r.kind = "Ok" -> Right(r.val)

into_OkBoth(self) == Ok(self.val)

\* impl Into<Result<R, L>> for Either<L, R>
into(self) ==
    CASE self.tag = "Left" -> Err(self.val)
      [] self.tag = "Right" -> Ok(self.val)

(* ------------- #[derive(PartialEq, Eq, PartialOrd, Ord)] -------------- *)

\* The payloads' own Ord.
PayloadCmp(a, b) ==
    IF a < b THEN "Less" ELSE IF a = b THEN "Equal" ELSE "Greater"

\* The variants' discriminants, in declaration order.
discriminant(self) ==
    CASE self.tag = "Left" -> 0
      [] self.tag = "Right" -> 1

\* Derived equality: the same variant holding equal payloads.
eq(a, b) == discriminant(a) = discriminant(b) /\ a.val = b.val

cmp_PayloadFirst(a, b) ==
    IF a.val # b.val
    THEN PayloadCmp(a.val, b.val)
    ELSE PayloadCmp(discriminant(a), discriminant(b))

\* Derived ordering: by discriminant first, by payload within a variant.
cmp(a, b) ==
    IF discriminant(a) # discriminant(b)
    THEN PayloadCmp(discriminant(a), discriminant(b))
    ELSE PayloadCmp(a.val, b.val)

lt(a, b) == cmp(a, b) = "Less"

le(a, b) == cmp(a, b) \in {"Less", "Equal"}

(* ------------------- the payloads' own iterators ---------------------- *)

\* Every sequence of at most MaxLen payloads (a Vec, a slice, an array).
Seqs == UNION {[1 .. n -> Payload] : n \in 0 .. MaxLen}

\* IntoIterator::into_iter of a sequence: the iterator over its items.
into_iter(s) == [rem |-> s]

\* IntoIterator::into_iter of &s: the iterator over borrows of its items.
iter(s) == [rem |-> [i \in 1 .. Len(s) |-> Ref(s[i])]]

\* IntoIterator::into_iter of &mut s: the iterator over exclusive borrows.
iter_mut(s) == [rem |-> [i \in 1 .. Len(s) |-> RefMut(s[i])]]

\* Iterator::next of a payload iterator: the value returned and the
\* iterator as the call leaves it.
Iter_next(it) ==
    IF it.rem = <<>>
    THEN [ret |-> None, inner |-> it]
    ELSE [ret |-> Some(Head(it.rem)), inner |-> [rem |-> Tail(it.rem)]]

\* DoubleEndedIterator::next_back of a payload iterator.
Iter_next_back(it) ==
    IF it.rem = <<>>
    THEN [ret |-> None, inner |-> it]
    ELSE [ret |-> Some(it.rem[Len(it.rem)]),
          inner |-> [rem |-> SubSeq(it.rem, 1, Len(it.rem) - 1)]]

\* Iterator::nth of a payload iterator: skips n items and returns the next.
Iter_nth(it, n) ==
    IF n < Len(it.rem)
    THEN [ret |-> Some(it.rem[n + 1]),
          inner |-> [rem |-> SubSeq(it.rem, n + 2, Len(it.rem))]]
    ELSE [ret |-> None, inner |-> [rem |-> <<>>]]

\* Iterator::count of a payload iterator (consumes it).
Iter_count(it) == Len(it.rem)

\* Iterator::collect of a payload iterator into a Vec (consumes it).
Iter_collect(it) == it.rem

(* ------------------ impl Iterator for Either<L, R> -------------------- *)

\* either_mut!(value, inner => ...): inner is bound, in either arm, to the
\* payload of the variant held.
either_mut(value) ==
    CASE value.tag = "Left" -> value.val
      [] value.tag = "Right" -> value.val

\* for_both!(value, pattern => ...): the same binding in both arms.
for_both(value) ==
    CASE value.tag = "Left" -> value.val
      [] value.tag = "Right" -> value.val

ref_mut_inner_RebuildsLeft(value, inner) == Left(inner)

\* What a call through the `ref mut inner` binding leaves in value: the
\* payload is updated in place, within its variant.
ref_mut_inner(value, inner) == [value EXCEPT !.val = inner]

Either_next_DropsAdvance(self) ==
    LET r == Iter_next(either_mut(self))
    IN  [ret |-> r.ret,
         self |-> IF self.tag = "Right" THEN self
                  ELSE ref_mut_inner(self, r.inner)]

Either_next(self) ==
    LET r == Iter_next(either_mut(self))
    IN  [ret |-> r.ret, self |-> ref_mut_inner(self, r.inner)]

Either_next_back(self) ==
    LET r == Iter_next_back(either_mut(self))
    IN  [ret |-> r.ret, self |-> ref_mut_inner(self, r.inner)]

Either_nth(self, n) ==
    LET r == Iter_nth(for_both(self), n)
    IN  [ret |-> r.ret, self |-> ref_mut_inner(self, r.inner)]

Either_count(self) == Iter_count(for_both(self))

Either_collect(self) == Iter_collect(for_both(self))

(* ----------------------------- IterEither ----------------------------- *)

\* IterEither { inner: map_either!(self, inner => inner.into_iter()) }
factor_into_iter(self) ==
    [inner |-> CASE self.tag = "Left" -> Left(into_iter(self.val))
                 [] self.tag = "Right" -> Right(into_iter(self.val))]

factor_iter(self) ==
    [inner |-> CASE self.tag = "Left" -> Left(iter(self.val))
                 [] self.tag = "Right" -> Right(iter(self.val))]

factor_iter_mut(self) ==
    [inner |-> CASE self.tag = "Left" -> Left(iter_mut(self.val))
                 [] self.tag = "Right" -> Right(iter_mut(self.val))]

IterEither_next_TagsLeft(self) ==
    LET r == Iter_next(self.inner.val)
    IN  [ret |-> IF r.ret.some THEN Some(Left(r.ret.val)) ELSE None,
         self |-> [inner |-> ref_mut_inner(self.inner, r.inner)]]

\* Some(map_either!(self.inner, ref mut inner => inner.next()?))
IterEither_next(self) ==
    CASE self.inner.tag = "Left" ->
            LET r == Iter_next(self.inner.val)
            IN  [ret |-> IF r.ret.some THEN Some(Left(r.ret.val)) ELSE None,
                 self |-> [inner |-> ref_mut_inner(self.inner, r.inner)]]
      [] self.inner.tag = "Right" ->
            LET r == Iter_next(self.inner.val)
            IN  [ret |-> IF r.ret.some THEN Some(Right(r.ret.val)) ELSE None,
                 self |-> [inner |-> ref_mut_inner(self.inner, r.inner)]]

(* -------------------- bulk operations of IterEither ------------------- *)

\* Some(map_either!(self.inner, ref mut inner => inner.next_back()?))
IterEither_next_back(self) ==
    CASE self.inner.tag = "Left" ->
            LET r == Iter_next_back(self.inner.val)
            IN  [ret |-> IF r.ret.some THEN Some(Left(r.ret.val)) ELSE None,
                 self |-> [inner |-> ref_mut_inner(self.inner, r.inner)]]
      [] self.inner.tag = "Right" ->
            LET r == Iter_next_back(self.inner.val)
            IN  [ret |-> IF r.ret.some THEN Some(Right(r.ret.val)) ELSE None,
                 self |-> [inner |-> ref_mut_inner(self.inner, r.inner)]]

\* The integer behind an item of an IterEither factored by method m.
ItemVal(m, item) ==
    CASE m = "factor_into_iter" -> item.val
      [] m = "factor_iter" -> item.val.ref
      [] m = "factor_iter_mut" -> item.val.refmut

\* The caller's functions an operation is called with, on an IterEither
\* factored by method m: |acc, item| acc + [item] from [] and
\* |acc, item| acc + *item from 0 for fold and rfold, any |item| for
\* for_each, none for collect,
\* |item| if *item >= k { Some(*item * 2) } else { None } for find_map, and
\* the predicates |item| *item >= k for the others.
ArgsOf(opn, m) ==
    CASE opn \in {"fold", "rfold"} ->
            {[name |-> "push", how |-> m, init |-> <<>>],
             [name |-> "sum", how |-> m, init |-> 0]}
      [] opn = "for_each" -> {[name |-> "visit"]}
      [] opn = "collect" -> {[name |-> "none"]}
      [] opn = "find_map" ->
            {[name |-> "double_if_ge", how |-> m, k |-> k] : k \in Payload}
      [] OTHER -> {[name |-> "ge", how |-> m, k |-> k] : k \in Payload}

\* f(item)
Apply(f, item) ==
    CASE f.name = "ge" -> ItemVal(f.how, item) >= f.k
      [] f.name = "double_if_ge" ->
            IF ItemVal(f.how, item) >= f.k
            THEN Some(ItemVal(f.how, item) * 2) ELSE None
      [] f.name = "visit" -> Unit

\* What each operation of core::iter::Iterator starts from, does with one
\* item, and returns at the end.
Start(opn, f) ==
    CASE opn \in {"fold", "rfold"} -> f.init
      [] opn = "for_each" -> Unit
      [] opn = "collect" -> <<>>
      [] opn = "partition" -> [yes |-> <<>>, no |-> <<>>]
      [] opn = "all" -> TRUE
      [] opn = "any" -> FALSE
      [] opn \in {"find", "rfind", "find_map"} -> None
      [] opn = "position" -> [i |-> 0, ret |-> None]

Step(opn, f, acc, item) ==
    CASE opn \in {"fold", "rfold"} ->
            [acc |-> CASE f.name = "push" -> Append(acc, item)
                       [] f.name = "sum" -> acc + ItemVal(f.how, item),
             stop |-> FALSE]
      [] opn = "for_each" -> [acc |-> Apply(f, item), stop |-> FALSE]
      [] opn = "collect" -> [acc |-> Append(acc, item), stop |-> FALSE]
      [] opn = "partition" ->
            [acc |-> IF Apply(f, item)
                     THEN [acc EXCEPT !.yes = Append(@, item)]
                     ELSE [acc EXCEPT !.no = Append(@, item)],
             stop |-> FALSE]
      [] opn = "all" -> [acc |-> Apply(f, item), stop |-> ~Apply(f, item)]
      [] opn = "any" -> [acc |-> Apply(f, item), stop |-> Apply(f, item)]
      [] opn \in {"find", "rfind"} ->
            [acc |-> IF Apply(f, item) THEN Some(item) ELSE None,
             stop |-> Apply(f, item)]
      [] opn = "find_map" ->
            [acc |-> Apply(f, item), stop |-> Apply(f, item).some]
      [] opn = "position" ->
            IF Apply(f, item)
            THEN [acc |-> [acc EXCEPT !.ret = Some(acc.i)], stop |-> TRUE]
            ELSE [acc |-> [acc EXCEPT !.i = @ + 1], stop |-> FALSE]

Finish(opn, acc) ==
    CASE opn = "position" -> acc.ret
      [] opn = "partition" -> <<acc.yes, acc.no>>
      [] OTHER -> acc

\* Operation opn of the iterator it itself, rfold and rfind from the back:
\* the result, the items the caller's function was called on, and the
\* iterator afterwards.
RECURSIVE Iter_run(_, _, _, _, _)
Iter_run(opn, it, f, acc, log) ==
    LET r == IF opn \in {"rfold", "rfind"} THEN Iter_next_back(it)
             ELSE Iter_next(it)
        called == IF opn = "collect" THEN log ELSE Append(log, r.ret.val)
    IN  IF ~r.ret.some
        THEN [ret |-> Finish(opn, acc), log |-> log, inner |-> r.inner]
        ELSE LET s == Step(opn, f, acc, r.ret.val)
             IN  IF s.stop
                 THEN [ret |-> Finish(opn, s.acc), log |-> called,
                       inner |-> r.inner]
                 ELSE Iter_run(opn, r.inner, f, s.acc, called)

\* Operation opn performed by calling next() on the IterEither over and
\* over (next_back() for rfold and rfind).
RECURSIVE Loop_run(_, _, _, _, _)
Loop_run(opn, self, f, acc, log) ==
    LET r == IF opn \in {"rfold", "rfind"} THEN IterEither_next_back(self)
             ELSE IterEither_next(self)
        called == IF opn = "collect" THEN log ELSE Append(log, r.ret.val)
    IN  IF ~r.ret.some
        THEN [ret |-> Finish(opn, acc), log |-> log, self |-> r.self]
        ELSE LET s == Step(opn, f, acc, r.ret.val)
             IN  IF s.stop
                 THEN [ret |-> Finish(opn, s.acc), log |-> called,
                       self |-> r.self]
                 ELSE Loop_run(opn, r.self, f, s.acc, called)

wrap_either_MapsLeft(value) ==
    [rem |-> [i \in 1 .. Len(value.val.rem) |-> Left(value.val.rem[i])]]

\* wrap_either!: inner.map(Left) of a Left, inner.map(Right) of a Right.
wrap_either(value) ==
    CASE value.tag = "Left" ->
            [rem |-> [i \in 1 .. Len(value.val.rem) |->
                        Left(value.val.rem[i])]]
      [] value.tag = "Right" ->
            [rem |-> [i \in 1 .. Len(value.val.rem) |->
                        Right(value.val.rem[i])]]

\* wrap_either!(self.inner => .opn(f)) and
\* wrap_either!(&mut self.inner => .opn(f)): the operation runs on the
\* mapped iterator and advances the payload iterator underneath.
Wrapped(opn, self, f) ==
    LET r == Iter_run(opn, wrap_either(self.inner), f, Start(opn, f), <<>>)
        under == [rem |-> [i \in 1 .. Len(r.inner.rem) |-> r.inner.rem[i].val]]
    IN  [ret |-> r.ret, log |-> r.log,
         self |-> [inner |-> ref_mut_inner(self.inner, under)]]

\* Iterator::last and Iterator::size_hint of a payload iterator.
Iter_last(it) ==
    IF it.rem = <<>> THEN None ELSE Some(it.rem[Len(it.rem)])

Iter_size_hint(it) == <<Len(it.rem), Some(Len(it.rem))>>

\* for_both!(self.inner, ref inner => inner.size_hint())
IterEither_size_hint(self) == Iter_size_hint(for_both(self.inner))

\* for_both!(self.inner, inner => inner.count())
IterEither_count(self) == Iter_count(for_both(self.inner))

IterEither_last_TagsLeft(self) ==
    LET r == Iter_last(self.inner.val)
    IN  IF r.some THEN Some(Left(r.val)) ELSE None

\* Some(map_either!(self.inner, inner => inner.last()?))
IterEither_last(self) ==
    CASE self.inner.tag = "Left" ->
            LET r == Iter_last(self.inner.val)
            IN  IF r.some THEN Some(Left(r.val)) ELSE None
      [] self.inner.tag = "Right" ->
            LET r == Iter_last(self.inner.val)
            IN  IF r.some THEN Some(Right(r.val)) ELSE None

(* ------------------------- the borsh codec ---------------------------- *)

\* The payloads of test encdec's Either<u8, u128>.
U8Vals == {0, 1, 42, 255}

U128Vals == {0, 1, 256, 1234567}

CodecValues == {Left(v) : v \in U8Vals} \cup {Right(v) : v \in U128Vals}

\* Integer v as n little-endian bytes (to_le_bytes).
RECURSIVE LeBytes(_, _)
LeBytes(v, n) ==
    IF n = 0 THEN <<>> ELSE <<v % 256>> \o LeBytes(v \div 256, n - 1)

\* The integer that little-endian bytes b stand for (from_le_bytes).
RECURSIVE FromLe(_)
FromLe(b) ==
    IF b = <<>> THEN 0 ELSE Head(b) + 256 * FromLe(Tail(b))

\* A writer that never fails (a Vec<u8>), and one over a slice with room
\* bytes left (&mut [u8]).
VecWriter == [kind |-> "Vec", buf |-> <<>>]

SliceWriter(room) == [kind |-> "Slice", buf |-> <<>>, room |-> room]

Writers == {VecWriter} \cup {SliceWriter(n) : n \in {0, 1, 2, 16, 17, 18}}

\* Write::write_all: all of bytes, or what fits and then a WriteZero error.
write_all(w, bytes) ==
    IF w.kind = "Vec"
    THEN [ret |-> Ok(Unit), w |-> [w EXCEPT !.buf = @ \o bytes]]
    ELSE IF Len(bytes) <= w.room
    THEN [ret |-> Ok(Unit),
          w |-> [w EXCEPT !.buf = @ \o bytes, !.room = @ - Len(bytes)]]
    ELSE [ret |-> Err("WriteZero"),
          w |-> [w EXCEPT !.buf = @ \o SubSeq(bytes, 1, w.room), !.room = 0]]

\* Read::read_exact of n bytes from a reader over a slice: the bytes, or
\* an UnexpectedEof error.
read_exact(rd, n) ==
    IF n <= Len(rd)
    THEN [ret |-> Ok(SubSeq(rd, 1, n)), rd |-> SubSeq(rd, n + 1, Len(rd))]
    ELSE [ret |-> Err("UnexpectedEof"), rd |-> <<>>]

\* The payloads' own codecs: bool, u8 (for L) and u128 (for R). Each
\* serializer adds its name to the log of codec calls.
bool_serialize(b, w, log) ==
    LET r == write_all(w, <<IF b THEN 1 ELSE 0>>)
    IN  [ret |-> r.ret, w |-> r.w, log |-> Append(log, "bool")]

L_serialize(v, w, log) ==
    LET r == write_all(w, <<v>>)
    IN  [ret |-> r.ret, w |-> r.w, log |-> Append(log, "L")]

R_serialize(v, w, log) ==
    LET r == write_all(w, LeBytes(v, 16))
    IN  [ret |-> r.ret, w |-> r.w, log |-> Append(log, "R")]

bool_deserialize(rd, log) ==
    LET r == read_exact(rd, 1)
    IN  [ret |-> IF r.ret.kind = "Err" THEN r.ret
                 ELSE IF r.ret.val[1] = 0 THEN Ok(FALSE)
                 ELSE IF r.ret.val[1] = 1 THEN Ok(TRUE)
                 ELSE Err("InvalidData"),
         rd |-> r.rd, log |-> Append(log, "bool")]

L_deserialize(rd, log) ==
    LET r == read_exact(rd, 1)
    IN  [ret |-> IF r.ret.kind = "Err" THEN r.ret ELSE Ok(r.ret.val[1]),
         rd |-> r.rd, log |-> Append(log, "L")]

R_deserialize(rd, log) ==
    LET r == read_exact(rd, 16)
    IN  [ret |-> IF r.ret.kind = "Err" THEN r.ret ELSE Ok(FromLe(r.ret.val)),
         rd |-> r.rd, log |-> Append(log, "R")]

serialize_LeftTagOne(self, writer, log) ==
    LET t == bool_serialize(TRUE, writer, log)
    IN  IF t.ret.kind = "Err" THEN t
        ELSE IF self.tag = "Left" THEN L_serialize(self.val, t.w, t.log)
        ELSE R_serialize(self.val, t.w, t.log)

\* impl BorshSerialize for Either<L, R>
serialize(self, writer, log) ==
    CASE self.tag = "Left" ->
            LET t == bool_serialize(FALSE, writer, log)
            IN  IF t.ret.kind = "Err" THEN t
                ELSE L_serialize(self.val, t.w, t.log)
      [] self.tag = "Right" ->
            LET t == bool_serialize(TRUE, writer, log)
            IN  IF t.ret.kind = "Err" THEN t
                ELSE R_serialize(self.val, t.w, t.log)

deserialize_reader_SwappedArms(reader, log) ==
    LET t == bool_deserialize(reader, log)
    IN  IF t.ret.kind = "Err" THEN t
        ELSE IF ~t.ret.val
        THEN LET r == R_deserialize(t.rd, t.log)
             IN  IF r.ret.kind = "Err" THEN r
                 ELSE [r EXCEPT !.ret = Ok(Right(r.ret.val))]
        ELSE LET l == L_deserialize(t.rd, t.log)
             IN  IF l.ret.kind = "Err" THEN l
                 ELSE [l EXCEPT !.ret = Ok(Left(l.ret.val))]

\* impl BorshDeserialize for Either<L, R>
deserialize_reader(reader, log) ==
    LET t == bool_deserialize(reader, log)
    IN  IF t.ret.kind = "Err" THEN t
        ELSE IF t.ret.val
        THEN LET r == R_deserialize(t.rd, t.log)
             IN  IF r.ret.kind = "Err" THEN r
                 ELSE [r EXCEPT !.ret = Ok(Right(r.ret.val))]
        ELSE LET l == L_deserialize(t.rd, t.log)
             IN  IF l.ret.kind = "Err" THEN l
                 ELSE [l EXCEPT !.ret = Ok(Left(l.ret.val))]

\* borsh::to_vec: serialize into a fresh Vec.
to_vec(x, log) == serialize(x, VecWriter, log)

\* borsh::from_slice: deserialize, then fail if bytes are left over.
from_slice(bytes, log) ==
    LET r == deserialize_reader(bytes, log)
    IN  IF r.ret.kind = "Ok" /\ r.rd # <<>>
        THEN [r EXCEPT !.ret = Err("InvalidData")]
        ELSE r

\* The byte strings handed to deserialize_reader: every tag byte 0, 1, 2
\* followed by every prefix of a payload's encoding, and by a whole
\* encoding with one more byte after it; and the empty string.
PayloadEncodings ==
    {<<v>> : v \in U8Vals} \cup {LeBytes(v, 16) : v \in U128Vals}

PayloadBytes ==
    UNION {{SubSeq(e, 1, k) : k \in 0 .. Len(e)} : e \in PayloadEncodings}
        \cup {e \o <<7>> : e \in PayloadEncodings}

Streams == {<<>>} \cup {<<t>> \o b : t \in {0, 1, 2}, b \in PayloadBytes}

(* --------------- payloads read, written and extended ------------------ *)

\* Byte strings of the bytes of test read_write: 0xff in the data read, 1
\* in the data written.
ByteSeqs == UNION {[1 .. n -> {1, 255}] : n \in 0 .. MaxLen}

Min(a, b) == IF a <= b THEN a ELSE b

\* The payload after a call that did not fail.
Tick(p) == [p EXCEPT !.faultIn = IF @ > 0 THEN @ - 1 ELSE @]

\* The payload after a call that failed, and the error it produced.
Failed(p) == [ret |-> Err("EIO"), inner |-> [p EXCEPT !.faultIn = -1]]

\* A payload that implements Read and BufRead over the bytes rem. One
\* whose next call fails has faultIn = 0; one that fails after k more
\* calls has faultIn = k; one that never fails has faultIn = -1.
Readers == {[rem |-> b, faultIn |-> k] : b \in ByteSeqs, k \in {-1, 0, 1}}

\* Read::read into a buffer of n bytes: the count and the bytes copied.
inner_read(r, n) ==
    IF r.faultIn = 0 THEN Failed(r)
    ELSE LET k == Min(n, Len(r.rem))
         IN  [ret |-> Ok([n |-> k, bytes |-> SubSeq(r.rem, 1, k)]),
              inner |-> Tick([r EXCEPT !.rem = SubSeq(@, k + 1, Len(@))])]

\* Read::read_to_end: the count and the bytes appended to the Vec.
inner_read_to_end(r) ==
    IF r.faultIn = 0 THEN Failed(r)
    ELSE [ret |-> Ok([n |-> Len(r.rem), bytes |-> r.rem]),
          inner |-> Tick([r EXCEPT !.rem = <<>>])]

\* BufRead::fill_buf: the bytes buffered, none consumed.
inner_fill_buf(r) ==
    IF r.faultIn = 0 THEN Failed(r)
    ELSE [ret |-> Ok(r.rem), inner |-> Tick(r)]

\* BufRead::consume of amt bytes, at most those buffered.
inner_consume(r, amt) ==
    [ret |-> Unit, inner |-> [r EXCEPT !.rem = SubSeq(@, amt + 1, Len(@))]]

\* A payload that implements Write: a buffer with room bytes left, dirty
\* while it holds bytes not flushed.
NewWriters ==
    {[buf |-> <<>>, room |-> n, faultIn |-> k, dirty |-> FALSE] :
        n \in 0 .. MaxLen, k \in {-1, 0, 1}}

\* Write::write: the number of bytes taken.
inner_write(w, bytes) ==
    IF w.faultIn = 0 THEN Failed(w)
    ELSE LET k == Min(Len(bytes), w.room)
         IN  [ret |-> Ok(k),
              inner |-> Tick([w EXCEPT !.buf = @ \o SubSeq(bytes, 1, k),
                                       !.room = @ - k,
                                       !.dirty = @ \/ k > 0])]

\* Write::flush
inner_flush(w) ==
    IF w.faultIn = 0 THEN Failed(w)
    ELSE [ret |-> Ok(Unit), inner |-> Tick([w EXCEPT !.dirty = FALSE])]

(* ------------- impl Read / BufRead / Write / Extend for Either -------- *)

Either_read_Retries(self, n) ==
    LET r == inner_read(either_mut(self), n)
        again == inner_read(r.inner, n)
    IN  IF r.ret.kind = "Err"
        THEN [ret |-> again.ret, self |-> ref_mut_inner(self, again.inner)]
        ELSE [ret |-> r.ret, self |-> ref_mut_inner(self, r.inner)]

Either_read(self, n) ==
    LET r == inner_read(either_mut(self), n)
    IN  [ret |-> r.ret, self |-> ref_mut_inner(self, r.inner)]

Either_read_to_end(self) ==
    LET r == inner_read_to_end(either_mut(self))
    IN  [ret |-> r.ret, self |-> ref_mut_inner(self, r.inner)]

Either_fill_buf(self) ==
    LET r == inner_fill_buf(either_mut(self))
    IN  [ret |-> r.ret, self |-> ref_mut_inner(self, r.inner)]

Either_consume(self, amt) ==
    LET r == inner_consume(either_mut(self), amt)
    IN  [ret |-> r.ret, self |-> ref_mut_inner(self, r.inner)]

Either_write(self, bytes) ==
    LET r == inner_write(either_mut(self), bytes)
    IN  [ret |-> r.ret, self |-> ref_mut_inner(self, r.inner)]

Either_flush(self) ==
    LET r == inner_flush(either_mut(self))
    IN  [ret |-> r.ret, self |-> ref_mut_inner(self, r.inner)]

\* for_both!(*self, ref mut inner => inner.extend(iter)), on a Vec payload
Either_extend(self, items) ==
    ref_mut_inner(self, for_both(self) \o items)

\* fn mutate of the as_mut doc example: a write through the exclusive
\* borrow that as_mut() hands out, lv into a Left and rv into a Right.
mutate(r, lv, rv) ==
    LET view == as_mut(r)
    IN  CASE view.tag = "Left" -> ref_mut_inner(r, lv)
          [] view.tag = "Right" -> ref_mut_inner(r, rv)

(* ----------------------- try_left! / try_right! ----------------------- *)

\* ::std::convert::From::from(err) into the error type of the enclosing
\* function: the value itself where the types agree (u32 in fn a of test
\* macros), an owned String built from a &str where they do not (fn b).
From_from(conv, err) ==
    CASE conv = "same" -> err
      [] conv = "string" -> [owned |-> err]

try_left_ReturnsLeft(expr, conv) ==
    CASE expr.tag = "Left" -> [returns |-> FALSE, val |-> expr.val]
      [] expr.tag = "Right" ->
            [returns |-> TRUE, val |-> Left(From_from(conv, expr.val))]

\* try_left!($expr): the value the macro evaluates to, or the value the
\* enclosing function returns with.
try_left(expr, conv) ==
    CASE expr.tag = "Left" -> [returns |-> FALSE, val |-> expr.val]
      [] expr.tag = "Right" ->
            [returns |-> TRUE, val |-> Right(From_from(conv, expr.val))]

try_right(expr, conv) ==
    CASE expr.tag = "Left" ->
            [returns |-> TRUE, val |-> Left(From_from(conv, expr.val))]
      [] expr.tag = "Right" -> [returns |-> FALSE, val |-> expr.val]

(* ------------------------------- state -------------------------------- *)

VARIABLES
    op,      \* the method called last
    pre,     \* its receiver (or argument, for from)
    fs,      \* its other arguments
    ret,     \* what it returned
    calls,   \* the closure calls it made, in order
    origin,  \* the Either of sequences an IterEither was factored from
    how,     \* the method that factored it
    fe,      \* the IterEither
    fop,     \* the method called last on the IterEither
    fret,    \* what it returned
    emitted, \* the items next() has returned so far, in order
    eit,     \* an Either of iterators, used as an iterator
    dit,     \* the same payload iterator, used directly
    iop,     \* the Iterator method called last on both
    eret,    \* what the call on the Either returned
    dret,    \* what the call on the payload iterator returned
    len0,    \* the number of items the iterator started with
    nexts,   \* the number of calls to next() that returned an item
    onlyNext,\* whether next() is the only method called so far
    alive,   \* whether the iterators are still there (not consumed)
    cop,     \* the codec operation run last
    cx,      \* the value serialized
    wr,      \* the writer, as serialize left it
    sret,    \* what serialize returned
    input,   \* the bytes handed to deserialize
    rd,      \* the reader, as deserialize left it
    dres,    \* what deserialize returned
    clog,    \* the payload and tag codecs called, in order
    obj,     \* an Either operated on in place
    shadow,  \* the same payload, operated on directly
    kind,    \* what the payloads are: int, iter, reader, writer or vec
    tag0,    \* the variant obj was constructed as
    mop,     \* the in-place operation or inspection called last
    mret,    \* what the call on the Either returned
    pret,    \* what the call on the payload returned
    tpc,     \* where the function using try_left! / try_right! stands
    tmacro,  \* which of the two macros it uses
    targ,    \* the Either the macro is given
    tconv,   \* the From conversion in force at the early return
    tbody,   \* the closure the function applies after the macro
    tval,    \* the value the macro evaluated to
    tret,    \* what the function returned
    tafter,  \* whether the code after the macro has run
    bop,     \* the bulk method called last on the IterEither
    barg,    \* its argument
    bret,    \* what it returned
    blog,    \* the items it passed to the caller's function, in order
    lret,    \* what the same operation returns by calling next() repeatedly
    llog,    \* the items that way passes to the caller's function
    lfe,     \* the IterEither as that way leaves it
    balive   \* whether the IterEither is still there (not consumed)

coreVars == <<op, pre, fs, ret, calls>>

factorVars == <<origin, how, fe, fop, fret, emitted>>

delegVars == <<eit, dit, iop, eret, dret, len0, nexts, onlyNext, alive>>

codecVars == <<cop, cx, wr, sret, input, rd, dres, clog>>

inplaceVars == <<obj, shadow, kind, tag0, mop, mret, pret>>

tryVars == <<tpc, tmacro, targ, tconv, tbody, tval, tret, tafter>>

bulkVars == <<bop, barg, bret, blog, lret, llog, lfe, balive>>

moreVars == <<inplaceVars, tryVars, bulkVars>>

vars == <<coreVars, factorVars, delegVars, codecVars, moreVars>>

NoArgs == [f |-> Twice, g |-> Twice, other |-> Left(0)]

\* The result slot of an operation that has not run.
NotRun == [kind |-> "NotRun"]

\* The state of the parts a specification does not exercise.
IdleCore ==
    /\ op = "idle" /\ pre = Left(0) /\ fs = NoArgs
    /\ ret = Left(0) /\ calls = <<>>

IdleFactor ==
    /\ origin = Left(<<>>) /\ how = "factor_into_iter"
    /\ fe = factor_into_iter(Left(<<>>))
    /\ fop = "idle" /\ fret = None /\ emitted = <<>>

IdleDeleg ==
    /\ eit = Left(into_iter(<<>>)) /\ dit = into_iter(<<>>)
    /\ iop = "idle" /\ eret = None /\ dret = None
    /\ len0 = 0 /\ nexts = 0 /\ onlyNext = TRUE /\ alive = FALSE

IdleCodec ==
    /\ cop = "idle" /\ cx = Left(0) /\ wr = VecWriter /\ sret = NotRun
    /\ input = <<>> /\ rd = <<>> /\ dres = NotRun /\ clog = <<>>

IdleInPlace ==
    /\ obj = Left(0) /\ shadow = 0 /\ kind = "int" /\ tag0 = "Left"
    /\ mop = "idle" /\ mret = NotRun /\ pret = NotRun

IdleTry ==
    /\ tpc = "idle" /\ tmacro = "try_left" /\ targ = Left(0)
    /\ tconv = "same" /\ tbody = Twice /\ tval = 0
    /\ tret = NotRun /\ tafter = FALSE

IdleBulk ==
    /\ bop = "idle" /\ barg = 0 /\ bret = NotRun /\ blog = <<>>
    /\ lret = NotRun /\ llog = <<>>
    /\ lfe = factor_into_iter(Left(<<>>)) /\ balive = FALSE

IdleMore == IdleInPlace /\ IdleTry /\ IdleBulk

(* ------------------- the Either methods, one call each ---------------- *)

\* A value built by one of the two constructors.
InitCore ==
    /\ op = "new"
    /\ pre \in Eithers
    /\ fs = NoArgs
    /\ ret = pre
    /\ calls = <<>>
    /\ IdleFactor /\ IdleDeleg /\ IdleCodec /\ IdleMore

Call_left ==
    \E x \in Eithers :
        /\ op' = "left" /\ pre' = x /\ fs' = NoArgs
        /\ ret' = left(x) /\ calls' = <<>>
        /\ UNCHANGED <<factorVars, delegVars, codecVars, moreVars>>

Call_right ==
    \E x \in Eithers :
        /\ op' = "right" /\ pre' = x /\ fs' = NoArgs
        /\ ret' = right(x) /\ calls' = <<>>
        /\ UNCHANGED <<factorVars, delegVars, codecVars, moreVars>>

\* e.as_ref().right(), as in test basic
Call_as_ref_right ==
    \E x \in Eithers :
        /\ op' = "as_ref.right" /\ pre' = x /\ fs' = NoArgs
        /\ ret' = right(as_ref(x)) /\ calls' = <<>>
        /\ UNCHANGED <<factorVars, delegVars, codecVars, moreVars>>

\* e.as_mut().right(), as in test basic
Call_as_mut_right ==
    \E x \in Eithers :
        /\ op' = "as_mut.right" /\ pre' = x /\ fs' = NoArgs
        /\ ret' = right(as_mut(x)) /\ calls' = <<>>
        /\ UNCHANGED <<factorVars, delegVars, codecVars, moreVars>>

Call_as_ref_left ==
    \E x \in Eithers :
        /\ op' = "as_ref.left" /\ pre' = x /\ fs' = NoArgs
        /\ ret' = left(as_ref(x)) /\ calls' = <<>>
        /\ UNCHANGED <<factorVars, delegVars, codecVars, moreVars>>

Call_as_mut_left ==
    \E x \in Eithers :
        /\ op' = "as_mut.left" /\ pre' = x /\ fs' = NoArgs
        /\ ret' = left(as_mut(x)) /\ calls' = <<>>
        /\ UNCHANGED <<factorVars, delegVars, codecVars, moreVars>>

Call_flip ==
    \E x \in Eithers :
        /\ op' = "flip" /\ pre' = x /\ fs' = NoArgs
        /\ ret' = flip(x) /\ calls' = <<>>
        /\ UNCHANGED <<factorVars, delegVars, codecVars, moreVars>>

Call_map_left ==
    \E x \in Eithers, f \in Fns :
        LET r == map_left(x, f, <<>>)
        IN  /\ op' = "map_left" /\ pre' = x
            /\ fs' = [NoArgs EXCEPT !.f = f]
            /\ ret' = r.ret /\ calls' = r.log
            /\ UNCHANGED <<factorVars, delegVars, codecVars, moreVars>>

Call_map_right ==
    \E x \in Eithers, f \in Fns :
        LET r == map_right(x, f, <<>>)
        IN  /\ op' = "map_right" /\ pre' = x
            /\ fs' = [NoArgs EXCEPT !.f = f]
            /\ ret' = r.ret /\ calls' = r.log
            /\ UNCHANGED <<factorVars, delegVars, codecVars, moreVars>>

Call_either ==
    \E x \in Eithers, f \in Fns, g \in Fns :
        LET r == either(x, f, g, <<>>)
        IN  /\ op' = "either" /\ pre' = x
            /\ fs' = [NoArgs EXCEPT !.f = f, !.g = g]
            /\ ret' = r.ret /\ calls' = r.log
            /\ UNCHANGED <<factorVars, delegVars, codecVars, moreVars>>

Call_into ==
    \E x \in Eithers :
        /\ op' = "into" /\ pre' = x /\ fs' = NoArgs
        /\ ret' = into(x) /\ calls' = <<>>
        /\ UNCHANGED <<factorVars, delegVars, codecVars, moreVars>>

Call_from ==
    \E r \in Results :
        /\ op' = "from" /\ pre' = r /\ fs' = NoArgs
        /\ ret' = from(r) /\ calls' = <<>>
        /\ UNCHANGED <<factorVars, delegVars, codecVars, moreVars>>

\* a == b, a < b, a <= b and a.cmp(&b) of two Either values
Call_cmp ==
    \E a \in Eithers, b \in Eithers :
        /\ op' = "cmp" /\ pre' = a
        /\ fs' = [NoArgs EXCEPT !.other = b]
        /\ ret' = [cmp |-> cmp(a, b), eq |-> eq(a, b),
                   lt |-> lt(a, b), le |-> le(a, b)]
        /\ calls' = <<>>
        /\ UNCHANGED <<factorVars, delegVars, codecVars, moreVars>>

NextCore ==
    \/ Call_left
    \/ Call_right
    \/ Call_as_ref_right
    \/ Call_as_mut_right
    \/ Call_as_ref_left
    \/ Call_as_mut_left
    \/ Call_flip
    \/ Call_map_left
    \/ Call_map_right
    \/ Call_either
    \/ Call_into
    \/ Call_from
    \/ Call_cmp

Spec == InitCore /\ [][NextCore]_vars


(* ------------------- an IterEither, pulled item by item --------------- *)

\* The IterEither that method `m` factors out of the Either of sequences e.
Factored(m, e) ==
    CASE m = "factor_into_iter" -> factor_into_iter(e)
      [] m = "factor_iter" -> factor_iter(e)
      [] m = "factor_iter_mut" -> factor_iter_mut(e)

InitFactor ==
    /\ origin \in {Left(s) : s \in Seqs} \cup {Right(s) : s \in Seqs}
    /\ how \in {"factor_into_iter", "factor_iter", "factor_iter_mut"}
    /\ fe = Factored(how, origin)
    /\ fop = "new" /\ fret = None /\ emitted = <<>>
    /\ IdleCore /\ IdleDeleg /\ IdleCodec /\ IdleMore

Call_IterEither_next ==
    LET r == IterEither_next(fe)
    IN  /\ fop' = "next"
        /\ fe' = r.self
        /\ fret' = r.ret
        /\ emitted' = IF r.ret.some THEN Append(emitted, r.ret.val)
                      ELSE emitted
        /\ UNCHANGED <<origin, how, coreVars, delegVars, codecVars, moreVars>>

NextFactor == Call_IterEither_next

SpecFactor == InitFactor /\ [][NextFactor]_vars

(* -------- an Either of iterators, beside the iterator it holds -------- *)

\* Left(it) or Right(it), and it itself, from the same sequence.
InitDeleg ==
    /\ \E s \in Seqs :
        /\ eit \in {Left(into_iter(s)), Right(into_iter(s))}
        /\ dit = into_iter(s)
        /\ len0 = Len(s)
    /\ iop = "new" /\ eret = None /\ dret = None
    /\ nexts = 0 /\ onlyNext = TRUE /\ alive = TRUE
    /\ IdleCore /\ IdleFactor /\ IdleCodec /\ IdleMore

Call_next ==
    /\ alive
    /\ LET e == Either_next(eit)
           d == Iter_next(dit)
       IN  /\ iop' = "next"
           /\ eit' = e.self /\ eret' = e.ret
           /\ dit' = d.inner /\ dret' = d.ret
           /\ nexts' = IF e.ret.some THEN nexts + 1 ELSE nexts
    /\ UNCHANGED <<len0, onlyNext, alive, coreVars, factorVars, codecVars, moreVars>>

Call_next_back ==
    /\ alive
    /\ LET e == Either_next_back(eit)
           d == Iter_next_back(dit)
       IN  /\ iop' = "next_back"
           /\ eit' = e.self /\ eret' = e.ret
           /\ dit' = d.inner /\ dret' = d.ret
    /\ onlyNext' = FALSE
    /\ UNCHANGED <<len0, nexts, alive, coreVars, factorVars, codecVars, moreVars>>

Call_nth ==
    /\ alive
    /\ \E n \in 0 .. MaxLen :
        LET e == Either_nth(eit, n)
            d == Iter_nth(dit, n)
        IN  /\ iop' = "nth"
            /\ eit' = e.self /\ eret' = e.ret
            /\ dit' = d.inner /\ dret' = d.ret
    /\ onlyNext' = FALSE
    /\ UNCHANGED <<len0, nexts, alive, coreVars, factorVars, codecVars, moreVars>>

\* count() takes the iterator by value: nothing can be called after it.
Call_count ==
    /\ alive
    /\ iop' = "count"
    /\ eret' = Either_count(eit)
    /\ dret' = Iter_count(dit)
    /\ alive' = FALSE
    /\ UNCHANGED <<eit, dit, len0, nexts, onlyNext,
                   coreVars, factorVars, codecVars, moreVars>>

\* collect() takes the iterator by value as well.
Call_collect ==
    /\ alive
    /\ iop' = "collect"
    /\ eret' = Either_collect(eit)
    /\ dret' = Iter_collect(dit)
    /\ alive' = FALSE
    /\ UNCHANGED <<eit, dit, len0, nexts, onlyNext,
                   coreVars, factorVars, codecVars, moreVars>>

NextDeleg ==
    \/ Call_next
    \/ Call_next_back
    \/ Call_nth
    \/ Call_count
    \/ Call_collect

SpecDeleg == InitDeleg /\ [][NextDeleg]_vars

(* ------------------------- the codec, one run each -------------------- *)

InitCodec ==
    /\ cop = "new" /\ cx \in CodecValues /\ wr = VecWriter
    /\ sret = NotRun /\ input = <<>> /\ rd = <<>>
    /\ dres = NotRun /\ clog = <<>>
    /\ IdleCore /\ IdleFactor /\ IdleDeleg /\ IdleMore

Call_serialize ==
    \E x \in CodecValues, w \in Writers :
        LET r == serialize(x, w, <<>>)
        IN  /\ cop' = "serialize" /\ cx' = x
            /\ wr' = r.w /\ sret' = r.ret /\ clog' = r.log
            /\ input' = <<>> /\ rd' = <<>> /\ dres' = NotRun
            /\ UNCHANGED <<coreVars, factorVars, delegVars, moreVars>>

Call_deserialize ==
    \E bytes \in Streams :
        LET r == deserialize_reader(bytes, <<>>)
        IN  /\ cop' = "deserialize" /\ input' = bytes
            /\ rd' = r.rd /\ dres' = r.ret /\ clog' = r.log
            /\ wr' = VecWriter /\ sret' = NotRun
            /\ UNCHANGED <<cx, coreVars, factorVars, delegVars, moreVars>>

\* test encdec: borsh::to_vec(&x), then borsh::from_slice of those bytes.
Call_encdec ==
    \E x \in CodecValues :
        LET e == to_vec(x, <<>>)
            d == from_slice(e.w.buf, e.log)
        IN  /\ cop' = "encdec" /\ cx' = x
            /\ wr' = e.w /\ sret' = e.ret
            /\ input' = e.w.buf /\ rd' = d.rd /\ dres' = d.ret
            /\ clog' = d.log
            /\ UNCHANGED <<coreVars, factorVars, delegVars, moreVars>>

NextCodec ==
    \/ Call_serialize
    \/ Call_deserialize
    \/ Call_encdec

SpecCodec == InitCodec /\ [][NextCodec]_vars

(* ---------- an Either operated on in place, beside its payload ------- *)

\* The payloads of each kind an Either can be constructed over.
PayloadsOf(k) ==
    CASE k = "int" -> Payload
      [] k = "iter" -> {into_iter(q) : q \in Seqs}
      [] k = "reader" -> Readers
      [] k = "writer" -> NewWriters
      [] k = "vec" -> Seqs

\* Left(p) or Right(p) over a payload p, and p itself.
InitInPlace ==
    /\ kind \in {"int", "iter", "reader", "writer", "vec"}
    /\ shadow \in PayloadsOf(kind)
    /\ tag0 \in {"Left", "Right"}
    /\ obj = IF tag0 = "Left" THEN Left(shadow) ELSE Right(shadow)
    /\ mop = "new" /\ mret = NotRun /\ pret = NotRun
    /\ IdleCore /\ IdleFactor /\ IdleDeleg /\ IdleCodec
    /\ IdleTry /\ IdleBulk

NotInPlace ==
    <<kind, tag0, coreVars, factorVars, delegVars, codecVars,
      tryVars, bulkVars>>

InPlace_is_left ==
    /\ mop' = "is_left" /\ mret' = is_left(obj) /\ pret' = NotRun
    /\ UNCHANGED <<obj, shadow, NotInPlace>>

InPlace_is_right ==
    /\ mop' = "is_right" /\ mret' = is_right(obj) /\ pret' = NotRun
    /\ UNCHANGED <<obj, shadow, NotInPlace>>

InPlace_as_ref ==
    /\ mop' = "as_ref" /\ mret' = as_ref(obj) /\ pret' = NotRun
    /\ UNCHANGED <<obj, shadow, NotInPlace>>

InPlace_mutate ==
    /\ kind = "int"
    /\ \E lv \in Payload, rv \in Payload :
        /\ mop' = "as_mut" /\ obj' = mutate(obj, lv, rv)
        /\ shadow' = IF tag0 = "Left" THEN lv ELSE rv
        /\ mret' = Unit /\ pret' = Unit
    /\ UNCHANGED NotInPlace

InPlace_next ==
    /\ kind = "iter"
    /\ LET e == Either_next(obj)
           d == Iter_next(shadow)
       IN  /\ mop' = "next" /\ obj' = e.self /\ mret' = e.ret
           /\ shadow' = d.inner /\ pret' = d.ret
    /\ UNCHANGED NotInPlace

InPlace_next_back ==
    /\ kind = "iter"
    /\ LET e == Either_next_back(obj)
           d == Iter_next_back(shadow)
       IN  /\ mop' = "next_back" /\ obj' = e.self /\ mret' = e.ret
           /\ shadow' = d.inner /\ pret' = d.ret
    /\ UNCHANGED NotInPlace

InPlace_nth ==
    /\ kind = "iter"
    /\ \E n \in 0 .. MaxLen :
        LET e == Either_nth(obj, n)
            d == Iter_nth(shadow, n)
        IN  /\ mop' = "nth" /\ obj' = e.self /\ mret' = e.ret
            /\ shadow' = d.inner /\ pret' = d.ret
    /\ UNCHANGED NotInPlace

InPlace_read ==
    /\ kind = "reader"
    /\ \E n \in 0 .. MaxLen :
        LET e == Either_read(obj, n)
            d == inner_read(shadow, n)
        IN  /\ mop' = "read" /\ obj' = e.self /\ mret' = e.ret
            /\ shadow' = d.inner /\ pret' = d.ret
    /\ UNCHANGED NotInPlace

InPlace_read_to_end ==
    /\ kind = "reader"
    /\ LET e == Either_read_to_end(obj)
           d == inner_read_to_end(shadow)
       IN  /\ mop' = "read_to_end" /\ obj' = e.self /\ mret' = e.ret
           /\ shadow' = d.inner /\ pret' = d.ret
    /\ UNCHANGED NotInPlace

InPlace_fill_buf ==
    /\ kind = "reader"
    /\ LET e == Either_fill_buf(obj)
           d == inner_fill_buf(shadow)
       IN  /\ mop' = "fill_buf" /\ obj' = e.self /\ mret' = e.ret
           /\ shadow' = d.inner /\ pret' = d.ret
    /\ UNCHANGED NotInPlace

\* consume(amt) follows a fill_buf that returned at least amt bytes.
InPlace_consume ==
    /\ kind = "reader"
    /\ mop = "fill_buf" /\ mret.kind = "Ok"
    /\ \E amt \in 0 .. Len(mret.val) :
        LET e == Either_consume(obj, amt)
            d == inner_consume(shadow, amt)
        IN  /\ mop' = "consume" /\ obj' = e.self /\ mret' = e.ret
            /\ shadow' = d.inner /\ pret' = d.ret
    /\ UNCHANGED NotInPlace

InPlace_write ==
    /\ kind = "writer"
    /\ \E bytes \in ByteSeqs :
        LET e == Either_write(obj, bytes)
            d == inner_write(shadow, bytes)
        IN  /\ mop' = "write" /\ obj' = e.self /\ mret' = e.ret
            /\ shadow' = d.inner /\ pret' = d.ret
    /\ UNCHANGED NotInPlace

InPlace_flush ==
    /\ kind = "writer"
    /\ LET e == Either_flush(obj)
           d == inner_flush(shadow)
       IN  /\ mop' = "flush" /\ obj' = e.self /\ mret' = e.ret
           /\ shadow' = d.inner /\ pret' = d.ret
    /\ UNCHANGED NotInPlace

\* extend(iter), as long as the Vec stays within MaxLen items.
InPlace_extend ==
    /\ kind = "vec"
    /\ \E items \in Seqs :
        /\ Len(shadow) + Len(items) <= MaxLen
        /\ mop' = "extend" /\ obj' = Either_extend(obj, items)
        /\ shadow' = shadow \o items
        /\ mret' = Unit /\ pret' = Unit
    /\ UNCHANGED NotInPlace

NextInPlace ==
    \/ InPlace_is_left
    \/ InPlace_is_right
    \/ InPlace_as_ref
    \/ InPlace_mutate
    \/ InPlace_next
    \/ InPlace_next_back
    \/ InPlace_nth
    \/ InPlace_read
    \/ InPlace_read_to_end
    \/ InPlace_fill_buf
    \/ InPlace_consume
    \/ InPlace_write
    \/ InPlace_flush
    \/ InPlace_extend

SpecInPlace == InitInPlace /\ [][NextInPlace]_vars

(* --------------- a function that uses try_left! / try_right! --------- *)

\* fn twice(wrapper) { let value = try_left!(wrapper); Left(body(value)) }
\* and its dual with try_right!, entered with an argument.
InitTry ==
    /\ tpc = "entry"
    /\ tmacro \in {"try_left", "try_right"}
    /\ targ \in Eithers
    /\ tconv \in {"same", "string"}
    /\ tbody \in Fns
    /\ tval = 0 /\ tret = NotRun /\ tafter = FALSE
    /\ IdleCore /\ IdleFactor /\ IdleDeleg /\ IdleCodec
    /\ IdleInPlace /\ IdleBulk

NotTry ==
    <<tmacro, targ, tconv, tbody, coreVars, factorVars, delegVars,
      codecVars, inplaceVars, bulkVars>>

\* let value = try_left!(wrapper);
Try_left ==
    /\ tpc = "entry" /\ tmacro = "try_left"
    /\ LET r == try_left(targ, tconv)
       IN  IF r.returns
           THEN tpc' = "returned" /\ tret' = r.val /\ tval' = tval
           ELSE tpc' = "after" /\ tval' = r.val /\ tret' = tret
    /\ UNCHANGED <<tafter, NotTry>>

\* let value = try_right!(wrapper);
Try_right ==
    /\ tpc = "entry" /\ tmacro = "try_right"
    /\ LET r == try_right(targ, tconv)
       IN  IF r.returns
           THEN tpc' = "returned" /\ tret' = r.val /\ tval' = tval
           ELSE tpc' = "after" /\ tval' = r.val /\ tret' = tret
    /\ UNCHANGED <<tafter, NotTry>>

\* The code after the macro: Left(body(value)), Right(body(value)) for the
\* dual.
Try_after ==
    /\ tpc = "after"
    /\ tafter' = TRUE
    /\ tret' = IF tmacro = "try_left" THEN Left(tbody[tval])
               ELSE Right(tbody[tval])
    /\ tpc' = "returned"
    /\ UNCHANGED <<tval, NotTry>>

NextTry ==
    \/ Try_left
    \/ Try_right
    \/ Try_after

SpecTry == InitTry /\ [][NextTry]_vars

(* ------- an IterEither, its bulk operations, and a next() loop ------- *)

\* An IterEither factored from Left(s) or Right(s), not yet advanced.
InitBulk ==
    /\ origin \in {Left(q) : q \in Seqs} \cup {Right(q) : q \in Seqs}
    /\ how \in {"factor_into_iter", "factor_iter", "factor_iter_mut"}
    /\ fe = Factored(how, origin)
    /\ fop = "idle" /\ fret = None /\ emitted = <<>>
    /\ bop = "new" /\ barg = 0 /\ bret = NotRun /\ blog = <<>>
    /\ lret = NotRun /\ llog = <<>> /\ lfe = fe /\ balive = TRUE
    /\ IdleCore /\ IdleDeleg /\ IdleCodec /\ IdleInPlace /\ IdleTry

NotBulk ==
    <<origin, how, fop, fret, emitted, coreVars, delegVars, codecVars,
      inplaceVars, tryVars>>

\* The operations that take &mut self or &self and leave the IterEither
\* usable.
ByRef ==
    {"next", "next_back", "size_hint", "all", "any", "find", "find_map",
     "position", "rfind"}

\* Operation opn has returned r on the IterEither, whose payload iterator
\* returns l for it.
Forwarded(opn, r, l, after) ==
    /\ bop' = opn /\ barg' = [name |-> "none"]
    /\ bret' = r /\ blog' = <<>> /\ fe' = after
    /\ lret' = l /\ llog' = <<>> /\ lfe' = after
    /\ balive' = (opn \in ByRef)
    /\ UNCHANGED NotBulk

\* The IterEither is usable and the last call on it was not a bulk
\* operation.
Fresh == balive /\ bop \in {"new", "next", "next_back", "size_hint"}

\* Bulk operation opn is called with one of its arguments; beside it, the
\* same operation is performed by calling next() over and over.
Bulk(opn) ==
    /\ Fresh
    /\ \E f \in ArgsOf(opn, how) :
        LET r == Wrapped(opn, fe, f)
            l == Loop_run(opn, fe, f, Start(opn, f), <<>>)
        IN  /\ bop' = opn /\ barg' = f
            /\ bret' = r.ret /\ blog' = r.log /\ fe' = r.self
            /\ lret' = l.ret /\ llog' = l.log /\ lfe' = l.self
            /\ balive' = (opn \in ByRef)
    /\ UNCHANGED NotBulk

Bulk_next ==
    /\ balive
    /\ LET r == IterEither_next(fe)
       IN  Forwarded("next", r.ret, r.ret, r.self)

Bulk_next_back ==
    /\ balive
    /\ LET r == IterEither_next_back(fe)
       IN  Forwarded("next_back", r.ret, r.ret, r.self)

\* count(self) and last(self) run the payload iterator to its end.
Bulk_count ==
    /\ Fresh
    /\ Forwarded("count", IterEither_count(fe), Iter_count(fe.inner.val),
                 [inner |-> ref_mut_inner(fe.inner, [rem |-> <<>>])])

Bulk_last ==
    /\ Fresh
    /\ Forwarded("last", IterEither_last(fe), Iter_last(fe.inner.val),
                 [inner |-> ref_mut_inner(fe.inner, [rem |-> <<>>])])

Bulk_size_hint ==
    /\ Fresh
    /\ Forwarded("size_hint", IterEither_size_hint(fe),
                 Iter_size_hint(fe.inner.val), fe)

NextBulk ==
    \/ Bulk_next
    \/ Bulk_next_back
    \/ Bulk("fold")
    \/ Bulk("for_each")
    \/ Bulk("collect")
    \/ Bulk("partition")
    \/ Bulk("all")
    \/ Bulk("any")
    \/ Bulk("find")
    \/ Bulk("find_map")
    \/ Bulk("position")
    \/ Bulk("rfold")
    \/ Bulk("rfind")
    \/ Bulk_count
    \/ Bulk_last
    \/ Bulk_size_hint

SpecBulk == InitBulk /\ [][NextBulk]_vars

(* ------------------------ claims on IterEither ------------------------ *)

\* The item an IterEither factored by method m returns for element x of
\* the sequence: x itself, a borrow of it, or an exclusive borrow of it.
Item(m, x) ==
    CASE m = "factor_into_iter" -> x
      [] m = "factor_iter" -> Ref(x)
      [] m = "factor_iter_mut" -> RefMut(x)

\* C1: an IterEither factored from Left(s) (resp. Right(s)) stays on that
\* side for ever; the items next() has returned are the first elements of
\* s, in order, each tagged with that side; next() returns None only once
\* all of s has been returned, and then the side is still the same.
C1_FactoredKeepsSide ==
    /\ fe.inner.tag = origin.tag
    /\ Len(emitted) <= Len(origin.val)
    /\ \A i \in 1 .. Len(emitted) :
            emitted[i] = [tag |-> origin.tag, val |-> Item(how, origin.val[i])]
    /\ fop = "next" =>
            IF fret.some
            THEN fret.val = emitted[Len(emitted)]
            ELSE Len(emitted) = Len(origin.val)

C1_Witness ==
    /\ fop = "next" /\ fret = None
    /\ origin.tag = "Right" /\ Len(origin.val) = 3
    /\ Len(emitted) = 3 /\ emitted[3] = Right(origin.val[3])
    /\ fe.inner.tag = "Right"

(* ---------------- claims on Either used as an iterator ---------------- *)

\* C2: after any sequence of next(), next_back(), nth(n), count() and
\* collect() calls, the call on Left(it) or Right(it) has returned what the
\* same call on it returned, the iterator held is where it is, and count()
\* after k successful next() calls alone returns the length less k.
C2_DelegationPreserves ==
    /\ eret = dret
    /\ eit.val = dit
    /\ (iop = "count" /\ onlyNext => eret = len0 - nexts)

C2_Witness ==
    /\ iop = "count" /\ onlyNext /\ eit.tag = "Right"
    /\ len0 = 3 /\ nexts = 1 /\ eret = 2

(* ------------------------- claims on the codec ------------------------ *)

\* C3: deserializing the bytes that serializing x produced succeeds, reads
\* all of them, and gives x back: the same variant holding the same payload.
C3_CodecRoundTrip ==
    cop = "encdec" =>
        /\ sret = Ok(Unit)
        /\ dres.kind = "Ok" /\ dres.val.tag = cx.tag /\ dres.val.val = cx.val
        /\ rd = <<>>

C3_Witness ==
    /\ cop = "encdec" /\ cx = Right(1234567)
    /\ Len(input) = 17 /\ dres = Ok(Right(1234567))

\* The layout of x: the tag byte, 0 for Left and 1 for Right, then the
\* payload's own encoding.
Layout(x) ==
    IF x.tag = "Left" THEN <<0, x.val>> ELSE <<1>> \o LeBytes(x.val, 16)

\* C4: a successful serialize has written the tag byte (0 for Left, 1 for
\* Right), then the payload's encoding, and nothing else, calling the tag's
\* codec and then the held side's; a failed one has written a prefix of
\* that. deserialize reads the tag byte first and then runs only the
\* decoder of the side it selects: L after 0, giving Left, R after 1,
\* giving Right, and none after any other byte or at the end of input.
C4_EncodingLayout ==
    /\ cop \in {"serialize", "encdec"} =>
        /\ Len(wr.buf) <= Len(Layout(cx))
        /\ wr.buf = SubSeq(Layout(cx), 1, Len(wr.buf))
        /\ (sret = Ok(Unit) =>
                /\ wr.buf = Layout(cx)
                /\ SubSeq(clog, 1, 2) =
                        <<"bool", IF cx.tag = "Left" THEN "L" ELSE "R">>)
    /\ cop = "deserialize" =>
        /\ clog[1] = "bool"
        /\ (input # <<>> /\ input[1] = 0 =>
                /\ clog = <<"bool", "L">>
                /\ (dres.kind = "Ok" => dres.val = Left(input[2])))
        /\ (input # <<>> /\ input[1] = 1 =>
                /\ clog = <<"bool", "R">>
                /\ (dres.kind = "Ok" =>
                        /\ dres.val.tag = "Right"
                        /\ LeBytes(dres.val.val, 16) = SubSeq(input, 2, 17)))
        /\ (input = <<>> \/ input[1] \notin {0, 1} =>
                clog = <<"bool">> /\ dres.kind = "Err")
        /\ (dres.kind = "Ok" => rd = SubSeq(input, Len(input) - Len(rd) + 1, Len(input)))

C4_Witness ==
    /\ cop = "deserialize" /\ Len(input) = 18 /\ input[1] = 1
    /\ dres = Ok(Right(1234567)) /\ rd = <<7>>
    /\ clog = <<"bool", "R">>

(* ----------------------- claims on the Either methods ----------------- *)

\* C5: flip swaps the tag and keeps the payload, flip(Left(v)) = Right(v)
\* and flip(Right(v)) = Left(v), and flipping the flipped value gives the
\* original back.
C5_FlipInvolution ==
    op = "flip" =>
        /\ (pre.tag = "Left" => ret = Right(pre.val))
        /\ (pre.tag = "Right" => ret = Left(pre.val))
        /\ flip(ret) = pre

C5_Witness == op = "flip" /\ pre = Left(1) /\ ret = Right(1)

\* C6: either(f, g) returns f(v) on Left(v) having called f once and g
\* never, and g(v) on Right(v) having called g once and f never.
C6_EitherAppliesOne ==
    op = "either" =>
        /\ (pre.tag = "Left" =>
                /\ ret = fs.f[pre.val]
                /\ calls = <<[fn |-> "f", arg |-> pre.val]>>)
        /\ (pre.tag = "Right" =>
                /\ ret = fs.g[pre.val]
                /\ calls = <<[fn |-> "g", arg |-> pre.val]>>)

C6_Witness ==
    /\ op = "either" /\ pre.tag = "Right"
    /\ fs.f[pre.val] # fs.g[pre.val]
    /\ ret = fs.g[pre.val]

\* C7: map_left(f) gives Left(f(v)) on Left(v) and leaves Right(v) as it
\* is without calling f; map_right(f) gives Right(f(v)) on Right(v) and
\* leaves Left(v) as it is without calling f.
C7_MapOneSide ==
    /\ op = "map_left" =>
        /\ (pre.tag = "Left" =>
                /\ ret = Left(fs.f[pre.val])
                /\ calls = <<[fn |-> "f", arg |-> pre.val]>>)
        /\ (pre.tag = "Right" => ret = pre /\ calls = <<>>)
    /\ op = "map_right" =>
        /\ (pre.tag = "Right" =>
                /\ ret = Right(fs.f[pre.val])
                /\ calls = <<[fn |-> "f", arg |-> pre.val]>>)
        /\ (pre.tag = "Left" => ret = pre /\ calls = <<>>)

C7_Witness ==
    /\ op = "map_left" /\ pre.tag = "Right"
    /\ fs.f[pre.val] # pre.val
    /\ ret = pre

\* C8: left() is Some(v) on Left(v) and None on Right; right() is Some(v)
\* on Right(v) and None on Left; as_ref().right() and as_mut().right() on
\* Right(v) are Some of a borrow of v (and None on Left), and likewise for
\* as_ref().left() and as_mut().left().
C8_Extraction ==
    /\ op = "left" =>
        ret = IF pre.tag = "Left" THEN Some(pre.val) ELSE None
    /\ op = "right" =>
        ret = IF pre.tag = "Right" THEN Some(pre.val) ELSE None
    /\ op = "as_ref.right" =>
        ret = IF pre.tag = "Right" THEN Some(Ref(pre.val)) ELSE None
    /\ op = "as_mut.right" =>
        ret = IF pre.tag = "Right" THEN Some(RefMut(pre.val)) ELSE None
    /\ op = "as_ref.left" =>
        ret = IF pre.tag = "Left" THEN Some(Ref(pre.val)) ELSE None
    /\ op = "as_mut.left" =>
        ret = IF pre.tag = "Left" THEN Some(RefMut(pre.val)) ELSE None

C8_Witness ==
    op = "as_mut.right" /\ pre = Right(2) /\ ret = Some(RefMut(2))

\* C9: into() maps Left(l) to Err(l) and Right(r) to Ok(r); from() maps
\* Err(e) to Left(e) and Ok(o) to Right(o); each undoes the other.
C9_ResultConversion ==
    /\ op = "into" =>
        /\ (pre.tag = "Left" => ret = Err(pre.val))
        /\ (pre.tag = "Right" => ret = Ok(pre.val))
        /\ from(ret) = pre
    /\ op = "from" =>
        /\ (pre.kind = "Err" => ret = Left(pre.val))
        /\ (pre.kind = "Ok" => ret = Right(pre.val))
        /\ into(ret) = pre

C9_Witness == op = "into" /\ pre = Right(1) /\ ret = Ok(1)

\* C10: a Left is less than every Right and no Right is less than or equal
\* to a Left, whatever the payloads; two values of one variant compare as
\* their payloads do; two values are equal exactly when variant and payload
\* are both equal.
C10_Ordering ==
    op = "cmp" =>
        /\ (pre.tag = "Left" /\ fs.other.tag = "Right" =>
                ret.cmp = "Less" /\ ret.lt /\ ret.le /\ ~ret.eq)
        /\ (pre.tag = "Right" /\ fs.other.tag = "Left" =>
                ret.cmp = "Greater" /\ ~ret.lt /\ ~ret.le /\ ~ret.eq)
        /\ (pre.tag = fs.other.tag =>
                /\ ret.cmp = PayloadCmp(pre.val, fs.other.val)
                /\ ret.lt = (pre.val < fs.other.val)
                /\ ret.le = (pre.val <= fs.other.val))
        /\ ret.eq = (pre.tag = fs.other.tag /\ pre.val = fs.other.val)
        /\ ret.eq = (ret.cmp = "Equal")

C10_Witness ==
    /\ op = "cmp" /\ pre.tag = "Left" /\ fs.other.tag = "Right"
    /\ pre.val > fs.other.val
    /\ ret.cmp = "Less"

(* ------------- claims on an Either operated on in place --------------- *)

\* C11: whatever in-place operations (a write through as_mut(), next,
\* next_back, nth, read, write, flush, extend) and inspections have been
\* called, is_left() is true exactly when the value was constructed as Left,
\* is_right() exactly when it was constructed as Right, so one of the two
\* holds and it is the one fixed at construction; as_ref() has that tag too.
C11_TagFixed ==
    /\ is_left(obj) = (tag0 = "Left")
    /\ is_right(obj) = (tag0 = "Right")
    /\ is_left(obj) # is_right(obj)
    /\ as_ref(obj).tag = tag0
    /\ (mop = "is_left" => mret = (tag0 = "Left"))
    /\ (mop = "is_right" => mret = (tag0 = "Right"))
    /\ (mop = "as_ref" => mret.tag = tag0)

C11_Witness ==
    /\ kind = "iter" /\ tag0 = "Right" /\ mop = "nth" /\ mret.some
    /\ is_right(obj) /\ ~is_left(obj)

\* The byte-stream operations.
IoOps == {"read", "read_to_end", "fill_buf", "consume", "write", "flush"}

\* C13: every read, read_to_end, fill_buf, consume, write and flush on an
\* Either has returned what the same call on the payload returns, the same
\* count and bytes or the very same error, and has left the payload where
\* that call leaves it, so that the next call goes on from there; a failed
\* call is not made a second time.
C13_ByteStreamDelegation ==
    mop \in IoOps =>
        /\ mop # "consume" => mret.kind = pret.kind
        /\ mret = pret
        /\ obj.val = shadow
        /\ obj.tag = tag0

C13_Witness ==
    /\ kind = "reader" /\ tag0 = "Right" /\ mop = "read"
    /\ mret.kind = "Err" /\ mret.val = "EIO" /\ pret.kind = "Err"
    /\ obj.val.faultIn = -1 /\ Len(obj.val.rem) = 1

(* -------------------- claims on try_left! / try_right! ---------------- *)

\* The tag a try macro unwraps.
Wanted == IF tmacro = "try_left" THEN "Left" ELSE "Right"

\* C12: once try_left! has run on Left(v), it has evaluated to v, the
\* function goes on and returns what the code after the macro computes from
\* v; once it has run on Right(err), the function has returned
\* Right(From::from(err)) and none of the code after the macro has run.
\* try_right! is the dual: Right(v) evaluates to v, Left(err) makes the
\* function return Left(From::from(err)).
C12_TryEarlyReturn ==
    /\ (tpc = "after" =>
            /\ targ.tag = Wanted /\ tval = targ.val
            /\ tret = NotRun /\ ~tafter)
    /\ (tpc = "returned" /\ targ.tag = Wanted =>
            /\ tafter /\ tval = targ.val
            /\ tret.tag = Wanted /\ tret.val = tbody[targ.val])
    /\ (tpc = "returned" /\ targ.tag # Wanted =>
            /\ ~tafter
            /\ tret.tag = targ.tag
            /\ tret.tag # Wanted
            /\ tret.val = From_from(tconv, targ.val))

C12_Witness ==
    /\ tpc = "returned" /\ tmacro = "try_left" /\ targ = Right(1)
    /\ tconv = "string" /\ ~tafter
    /\ tret.tag = "Right" /\ tret.val = [owned |-> 1]

(* ------------- claims on the bulk operations of IterEither ------------ *)

BulkOps ==
    {"fold", "for_each", "collect", "partition", "all", "any", "find",
     "find_map", "position", "rfold", "rfind"}

\* C14: each of fold, for_each, collect, partition, all, any, find,
\* find_map, position, rfold and rfind has returned what the same operation
\* returns when it is performed by calling next() on the IterEither over and
\* over (next_back() for rfold and rfind), has called the caller's function
\* on the same items in the same order, every one of them tagged with the
\* side the IterEither was factored from, and, where it takes &mut self, has
\* left the IterEither at the same position.
C14_BulkAsByNext ==
    bop \in BulkOps =>
        /\ bret = lret
        /\ blog = llog
        /\ \A i \in 1 .. Len(blog) : blog[i].tag = origin.tag
        /\ (bop \in ByRef => fe = lfe)

C14_Witness ==
    /\ bop = "find" /\ origin = Right(<<0, 2, 1>>) /\ how = "factor_iter"
    /\ barg.k = 2
    /\ bret = Some(Right(Ref(2)))
    /\ blog = <<Right(Ref(0)), Right(Ref(2))>>
    /\ fe.inner = Right([rem |-> <<Ref(1)>>])

\* The items an IterEither factored by method m can return: elements of
\* the sequence, or borrows of them, under a Left or a Right tag.
Tagged(m) ==
    {Left(Item(m, x)) : x \in Payload} \cup {Right(Item(m, x)) : x \in Payload}

\* C15, as stated: count(), last() and size_hint() of an IterEither each
\* return exactly the value the payload iterator's own count(), last() or
\* size_hint() returns, and no Left or Right tag is added to the result.
C15_ForwardedUntagged ==
    /\ (bop \in {"count", "size_hint"} => bret = lret)
    /\ (bop = "last" =>
            /\ bret.some = lret.some
            /\ (bret.some =>
                    bret.val \notin Tagged(how) /\ bret.val = lret.val))

\* C15, amended: count() and size_hint() of an IterEither return exactly
\* the value the payload iterator's own count() or size_hint() returns,
\* untagged; last() returns None when the payload iterator's last() does,
\* and otherwise the payload iterator's last item wrapped in the tag of the
\* side the IterEither was factored from.
C15_LastIsTagged ==
    /\ (bop \in {"count", "size_hint"} => bret = lret)
    /\ (bop = "last" =>
            /\ bret.some = lret.some
            /\ (bret.some =>
                    /\ bret.val.tag = origin.tag
                    /\ bret.val.val = lret.val))

C15_Witness ==
    /\ bop = "last" /\ how = "factor_into_iter" /\ origin = Right(<<1, 0, 2>>)
    /\ Len(fe.inner.val.rem) = 0
    /\ bret.some /\ bret.val.tag = "Right" /\ bret.val.val = 2
    /\ lret.some /\ lret.val = 2

====
